---------------------------- MODULE Spec2Model ----------------------------
(***************************************************************************)
(* Model of src/app.py: the Streamlit page that stages an uploaded image,  *)
(* calls one of three remote agents through replicate.run, normalises the  *)
(* provider's output (process_api_output) and caches the result in         *)
(* st.session_state.                                                       *)
(*                                                                         *)
(* One action is one run of the page script.  The widget values and the    *)
(* behaviour of the outside world during the run (open, replicate.run,     *)
(* requests.get, Image.open, os.unlink) are the inputs of the action.      *)
(* Layout, styling, the progress bar, the "fill in all required fields"    *)
(* hints and the right column's preview keep no state and are left out;    *)
(* writing the upload to its temporary file is taken to succeed.           *)
(***************************************************************************)
EXTENDS Integers, Sequences, FiniteSets, TLC

(***************************************************************************)
(* Python values.  Every value is a record with a type tag t, so that      *)
(* isinstance is a test of t and hasattr(v, 'url') is "url" \in DOMAIN v.  *)
(***************************************************************************)
None == [t |-> "NoneType"]

PyStr(s) == [t |-> "str", s |-> s]

PyList(items) == [t |-> "list", items |-> items]

\* A PIL image, identified by the URL its bytes were fetched from.
Image(src) == [t |-> "Image", src |-> src]

\* An object of the provider's library exposing a url attribute.
FileOutput(url) == [t |-> "FileOutput", url |-> url]

\* A str subclass that also carries a url attribute.
UrlStr(s, url) == [t |-> "str", s |-> s, url |-> url]

\* bool(v): None and the empty string are falsy.
Truthy(v) == IF v.t = "NoneType" THEN FALSE
             ELSE IF v.t = "str" THEN v.s # ""
             ELSE IF v.t = "list" THEN Len(v.items) > 0
             ELSE TRUE

\* a or b
PyOr(a, b) == IF Truthy(a) THEN a ELSE b

\* str(v), the coercion applied to the first element of a list.
Str(v) == IF v.t = "str" THEN PyStr(v.s)
          ELSE IF v.t = "NoneType" THEN PyStr("None")
          ELSE PyStr("<object>")

\* type(v), as printed in an f-string.
TypeName(v) == "<class '" \o v.t \o "'>"

\* The absence of an exception.
NoExc == ""

(***************************************************************************)
(* Bounds and input domains.                                               *)
(***************************************************************************)
\* The most temporary files the model lets accumulate on disk.
MaxTmp == 2

TmpPaths == 1 .. MaxTmp

\* Well-formed URLs the provider may hand out.
URLS == {"https://r/1", "https://r/2"}

\* What a secret store or the environment may hold for a credential.
KeyValues == {None, PyStr(""), PyStr("key")}

\* Values of the two text areas, as sequences of characters.
Texts == {<< >>, <<" ", " ">>, <<" ", "c", "a", "t">>}

\* Values of the file uploaders: None or an uploaded file (by name).
Uploads == {None, PyStr("ref.png")}

ContentTypes == {"Banner", "Short-form Video"}

\* Values of the aspect-ratio selectbox: one of its options, or None when no
\* option is selected (the case the page tests for before using the value).
AspectRatios == {PyStr("Vertical"), PyStr("Square"), PyStr("Horizontal"), None}

\* What replicate.run may return.
RawOutputs ==
    {PyStr(u) : u \in URLS} \cup
    {PyStr(""),
     UrlStr("https://r/1", PyStr("https://r/2")),
     PyList(<< >>),
     PyList(<<PyStr("https://r/2"), PyStr("https://r/1")>>),
     PyList(<<None>>),
     FileOutput(PyStr("https://r/1")),
     FileOutput(None),
     None}

\* What one HTTP GET of a well-formed URL may meet.
NetOutcomes == {"ok_image", "ok_not_image", "http_404", "conn_error"}

\* What replicate.run may do: raise, or return a raw output.
Raises(e) == [exc |-> e, output |-> None]

Returns(o) == [exc |-> NoExc, output |-> o]

\* What the outside world does during one generation attempt: whether the
\* staged file can be opened, what replicate.run does, and what the HTTP GET
\* of the normaliser meets.
Worlds ==
    {[open |-> "denied", run |-> Raises("provider down"), net |-> "ok_image"]}
    \cup {[open |-> "ok", run |-> Raises("provider down"), net |-> "ok_image"]}
    \cup {[open |-> "ok", run |-> Returns(o), net |-> n] :
             o \in RawOutputs, n \in NetOutcomes}

\* One world for every way an attempt can end: the file cannot be opened, the
\* provider raises, the output is a URL (fetched with every outcome), another
\* URL, the empty string, the empty list.
SessionWorlds ==
    {[open |-> "denied", run |-> Raises("provider down"), net |-> "ok_image"]}
    \cup {[open |-> "ok", run |-> Raises("provider down"), net |-> "ok_image"]}
    \cup {[open |-> "ok", run |-> Returns(PyStr("https://r/1")), net |-> n] :
             n \in NetOutcomes}
    \cup {[open |-> "ok", run |-> Returns(o), net |-> "ok_image"] :
             o \in {PyStr("https://r/2"), PyStr(""), PyList(<< >>)}}

\* Whether os.unlink of a staged file succeeds.
UnlinkOutcomes == {"ok", "busy"}

\* What the HTTP GET of the video download step may meet.
PreviewNetOutcomes == {"ok_not_image", "http_404", "conn_error"}

(***************************************************************************)
(* What the page shows: st.error, st.warning, st.success, st.info.  The    *)
(* text of a message is the sequence of the pieces its f-string joins.     *)
(***************************************************************************)
Msg(level, text) == [level |-> level, text |-> text]

\* ', '.join(names), as a sequence of pieces.
RECURSIVE Join(_)
Join(names) ==
    IF Len(names) = 0 THEN << >>
    ELSE IF Len(names) = 1 THEN names
    ELSE <<Head(names), ", ">> \o Join(Tail(names))

(***************************************************************************)
(* check_api_keys: (keys_available, error_message).                        *)
(***************************************************************************)
\* Mutant: a key counts as missing only when it is None ("is None" for "not").
check_api_keys_is_none(fal, google, replicate_token) ==
    LET m1 == IF fal = None THEN <<"FAL_API_KEY">> ELSE << >>
        m2 == IF google = None THEN m1 \o <<"GOOGLE_API_KEY">> ELSE m1
        missing_keys ==
            IF replicate_token = None THEN m2 \o <<"REPLICATE_API_TOKEN">>
            ELSE m2
    IN  IF Len(missing_keys) > 0
        THEN [ok |-> FALSE, msg |-> <<"Missing API keys: ">> \o Join(missing_keys)]
        ELSE [ok |-> TRUE, msg |-> << >>]

check_api_keys(fal, google, replicate_token) ==
    LET m1 == IF ~Truthy(fal) THEN <<"FAL_API_KEY">> ELSE << >>
        m2 == IF ~Truthy(google) THEN m1 \o <<"GOOGLE_API_KEY">> ELSE m1
        missing_keys ==
            IF ~Truthy(replicate_token) THEN m2 \o <<"REPLICATE_API_TOKEN">>
            ELSE m2
    IN  IF Len(missing_keys) > 0
        THEN [ok |-> FALSE, msg |-> <<"Missing API keys: ">> \o Join(missing_keys)]
        ELSE [ok |-> TRUE, msg |-> << >>]

(***************************************************************************)
(* requests.get(url); response.raise_for_status(); Image.open(...).        *)
(* Returns the image, or the exception one of the three calls raises.      *)
(***************************************************************************)
IsUrl(v) == v.t = "str" /\ v.s \in URLS

requests_get(url, net) ==
    IF ~IsUrl(url) THEN [exc |-> "Invalid URL", status |-> 0, body |-> "none"]
    ELSE IF net = "conn_error"
    THEN [exc |-> "Connection refused", status |-> 0, body |-> "none"]
    ELSE IF net = "http_404"
    THEN [exc |-> NoExc, status |-> 404, body |-> "html"]
    ELSE IF net = "ok_not_image"
    THEN [exc |-> NoExc, status |-> 200, body |-> "html"]
    ELSE [exc |-> NoExc, status |-> 200, body |-> "png"]

\* response.raise_for_status(): the exception raised, if any.
raise_for_status(response) ==
    IF response.status >= 400 THEN "404 Client Error" ELSE NoExc

\* Image.open(io.BytesIO(response.content)) after raise_for_status().
open_response(url, response) ==
    IF response.exc # NoExc THEN [ret |-> None, exc |-> response.exc]
    ELSE IF raise_for_status(response) # NoExc
    THEN [ret |-> None, exc |-> raise_for_status(response)]
    ELSE IF response.body # "png"
    THEN [ret |-> None, exc |-> "cannot identify image file"]
    ELSE [ret |-> Image(url.s), exc |-> NoExc]

fetch_image(url, net) == open_response(url, requests_get(url, net))

(***************************************************************************)
(* process_api_output.  process_api_output_try is the body of its try      *)
(* block: the value returned, the exception raised (NoExc if none), the    *)
(* messages shown and the URLs handed to requests.get.                     *)
(***************************************************************************)
\* output[0]
first_item(output) ==
    IF Len(output.items) = 0
    THEN [val |-> None, exc |-> "list index out of range"]
    ELSE [val |-> output.items[1], exc |-> NoExc]

unexpected_format(output) ==
    [ret |-> None, exc |-> NoExc, fetched |-> << >>,
     ui |-> <<Msg("error", <<"Unexpected output format: ", TypeName(output)>>)>>]

fetched_as(url, image) ==
    [ret |-> image.ret, exc |-> image.exc, fetched |-> <<url>>, ui |-> << >>]

image_from(url, net) == fetched_as(url, fetch_image(url, net))

returned(v) == [ret |-> v, exc |-> NoExc, fetched |-> << >>, ui |-> << >>]

raised(e) == [ret |-> None, exc |-> e, fetched |-> << >>, ui |-> << >>]

\* Mutant: the url attribute is looked for before the other shapes.
process_api_output_try_url_first(output, content_type, net) ==
    IF content_type = "image"
    THEN IF "url" \in DOMAIN output THEN image_from(output.url, net)
         ELSE IF output.t = "str" THEN image_from(output, net)
         ELSE IF output.t = "list" /\ Len(output.items) > 0
         THEN image_from(Str(first_item(output).val), net)
         ELSE unexpected_format(output)
    ELSE IF "url" \in DOMAIN output THEN returned(output.url)
         ELSE IF output.t = "str" THEN returned(output)
         ELSE IF output.t = "list" /\ Len(output.items) > 0
         THEN returned(Str(first_item(output).val))
         ELSE unexpected_format(output)

\* Mutant: a video output is fetched and decoded like an image.
process_api_output_try_video_fetches(output, content_type, net) ==
    IF output.t = "str" THEN image_from(output, net)
    ELSE IF output.t = "list" /\ Len(output.items) > 0
    THEN image_from(Str(first_item(output).val), net)
    ELSE IF "url" \in DOMAIN output THEN image_from(output.url, net)
    ELSE unexpected_format(output)

\* Mutant: a list is indexed without the test of its length.
process_api_output_try_no_len(output, content_type, net) ==
    IF content_type = "image"
    THEN IF output.t = "str" THEN image_from(output, net)
         ELSE IF output.t = "list"
         THEN IF first_item(output).exc # NoExc
              THEN raised(first_item(output).exc)
              ELSE image_from(Str(first_item(output).val), net)
         ELSE IF "url" \in DOMAIN output THEN image_from(output.url, net)
         ELSE unexpected_format(output)
    ELSE IF output.t = "str" THEN returned(output)
         ELSE IF output.t = "list"
         THEN IF first_item(output).exc # NoExc
              THEN raised(first_item(output).exc)
              ELSE returned(Str(first_item(output).val))
         ELSE IF "url" \in DOMAIN output THEN returned(output.url)
         ELSE unexpected_format(output)

process_api_output_try(output, content_type, net) ==
    IF content_type = "image"
    THEN IF output.t = "str" THEN image_from(output, net)
         ELSE IF output.t = "list" /\ Len(output.items) > 0
         THEN IF first_item(output).exc # NoExc
              THEN raised(first_item(output).exc)
              ELSE image_from(Str(first_item(output).val), net)
         ELSE IF "url" \in DOMAIN output THEN image_from(output.url, net)
         ELSE unexpected_format(output)
    ELSE IF output.t = "str" THEN returned(output)
         ELSE IF output.t = "list" /\ Len(output.items) > 0
         THEN IF first_item(output).exc # NoExc
              THEN raised(first_item(output).exc)
              ELSE returned(Str(first_item(output).val))
         ELSE IF "url" \in DOMAIN output THEN returned(output.url)
         ELSE unexpected_format(output)

\* except Exception as e: st.error(...); return None
process_api_output_except(r) ==
    IF r.exc # NoExc
    THEN [ret |-> None, fetched |-> r.fetched,
          ui |-> r.ui \o <<Msg("error", <<"Error processing API output: ", r.exc>>)>>]
    ELSE [ret |-> r.ret, fetched |-> r.fetched, ui |-> r.ui]

process_api_output(output, content_type, net) ==
    process_api_output_except(process_api_output_try(output, content_type, net))

(***************************************************************************)
(* State.                                                                  *)
(***************************************************************************)
VARIABLES
    FAL_API_KEY,          \* module globals read at process start
    GOOGLE_API_KEY,
    REPLICATE_API_TOKEN,
    session_state,        \* st.session_state: a dict, keys present or absent
    disk,                 \* the temporary files that exist
    run                   \* what the latest run of the page script did

vars == <<FAL_API_KEY, GOOGLE_API_KEY, REPLICATE_API_TOKEN, session_state, disk, run>>

(***************************************************************************)
(* The three generation functions.  Each returns the content (ret), the    *)
(* exception that leaves the function (exc), the messages shown (ui), the  *)
(* calls made to replicate.run (calls) and the URLs fetched (fetched).     *)
(***************************************************************************)
\* open(image_path, "rb"): the exception raised, if any.
open_file(image_path, files, world) ==
    IF image_path \notin files THEN "No such file or directory"
    ELSE IF world.open # "ok" THEN "Permission denied"
    ELSE NoExc

\* Mutant: a call that raises is issued a second time before giving up.
agent_steps_retry(keys, open_exc, call, ran, processed) ==
    IF ~keys.ok
    THEN [ret |-> None, exc |-> NoExc, calls |-> << >>, fetched |-> << >>,
          normalized |-> FALSE,
          ui |-> <<Msg("error", <<"API Configuration Error: ">> \o keys.msg)>>]
    ELSE IF open_exc # NoExc
    THEN [ret |-> None, exc |-> open_exc, calls |-> << >>,
          fetched |-> << >>, normalized |-> FALSE, ui |-> << >>]
    ELSE IF ran.exc # NoExc
    THEN [ret |-> None, exc |-> ran.exc, calls |-> <<call, call>>,
          fetched |-> << >>, normalized |-> FALSE, ui |-> << >>]
    ELSE [ret |-> processed.ret, exc |-> NoExc, calls |-> <<call>>,
          fetched |-> processed.fetched, normalized |-> TRUE,
          ui |-> processed.ui]

\* The steps of the try block shared by generate_banner,
\* generate_short_form_video and edit_image, given the result of each call:
\* check the keys, open the file, call the agent once, normalise its output.
agent_steps(keys, open_exc, call, ran, processed) ==
    IF ~keys.ok
    THEN [ret |-> None, exc |-> NoExc, calls |-> << >>, fetched |-> << >>,
          normalized |-> FALSE,
          ui |-> <<Msg("error", <<"API Configuration Error: ">> \o keys.msg)>>]
    ELSE IF open_exc # NoExc
    THEN [ret |-> None, exc |-> open_exc, calls |-> << >>,
          fetched |-> << >>, normalized |-> FALSE, ui |-> << >>]
    ELSE IF ran.exc # NoExc
    THEN [ret |-> None, exc |-> ran.exc, calls |-> <<call>>,
          fetched |-> << >>, normalized |-> FALSE, ui |-> << >>]
    ELSE [ret |-> processed.ret, exc |-> NoExc, calls |-> <<call>>,
          fetched |-> processed.fetched, normalized |-> TRUE,
          ui |-> processed.ui]

agent_try(ref, input, content_type, image_path, files, world) ==
    agent_steps(check_api_keys(FAL_API_KEY, GOOGLE_API_KEY, REPLICATE_API_TOKEN),
                open_file(image_path, files, world),
                [ref |-> ref, input |-> input],
                world.run,
                process_api_output(world.run.output, content_type, world.net))

\* Mutant: no except clause, the exception leaves the function.
agent_except_missing(r, prefix) == r

\* except Exception as e: st.error(f"{prefix}{str(e)}"); return None
agent_except(r, prefix) ==
    IF r.exc # NoExc
    THEN [r EXCEPT !.ret = None, !.exc = NoExc,
                   !.ui = r.ui \o <<Msg("error", <<prefix, r.exc>>)>>]
    ELSE r

base_input(text, image_path) ==
    [text |-> text, image |-> image_path,
     f_api_key |-> FAL_API_KEY, g_api_key |-> GOOGLE_API_KEY]

generate_banner(text, image_path, aspect_ratio, files, world) ==
    agent_except(
        agent_try("smoretalk/banner-agent",
                  [text |-> text, image |-> image_path,
                   f_api_key |-> FAL_API_KEY, g_api_key |-> GOOGLE_API_KEY,
                   aspect_ratio |-> aspect_ratio],
                  "image", image_path, files, world),
        "Error generating banner: ")

generate_short_form_video(text, image_path, files, world) ==
    agent_except(
        agent_try("smoretalk/short-form-agent", base_input(text, image_path),
                  "video", image_path, files, world),
        "Error generating video: ")

edit_image(text, image_path, files, world) ==
    agent_except(
        agent_try("smoretalk/edit-agent", base_input(text, image_path),
                  "image", image_path, files, world),
        "Error editing image: ")

(***************************************************************************)
(* Temporary files.                                                        *)
(***************************************************************************)
\* save_uploaded_file: the path of a new temporary file (one not on disk).
save_uploaded_file(files) ==
    CHOOSE p \in TmpPaths \ files : \A q \in TmpPaths \ files : p <= q

\* cleanup_temp_file: the files left and the warning shown, if any.
cleanup_temp_file(file_path, files, unlink) ==
    IF file_path \in files
    THEN IF unlink = "ok"
         THEN [files |-> files \ {file_path}, ui |-> << >>]
         ELSE [files |-> files,
               ui |-> <<Msg("warning", <<"Could not clean up temporary file: ",
                                         "Permission denied">>)>>]
    ELSE [files |-> files, ui |-> << >>]

(***************************************************************************)
(* Text helpers.                                                           *)
(***************************************************************************)
RECURSIVE lstrip(_)
lstrip(text) ==
    IF Len(text) > 0 /\ Head(text) = " " THEN lstrip(Tail(text)) ELSE text

RECURSIVE rstrip(_)
rstrip(text) ==
    IF Len(text) > 0 /\ text[Len(text)] = " "
    THEN rstrip(SubSeq(text, 1, Len(text) - 1))
    ELSE text

\* text.strip()
strip(text) == rstrip(lstrip(text))

\* s.lower(), on the strings the page lower-cases.
lower(s) ==
    CASE s = "Vertical" -> "vertical"
      [] s = "Square" -> "square"
      [] s = "Horizontal" -> "horizontal"
      [] s = "Banner" -> "banner"
      [] s = "Short-form Video" -> "short-form video"
      [] OTHER -> s

(***************************************************************************)
(* st.session_state as a dict.                                             *)
(***************************************************************************)
EmptyDict == [k \in {} |-> None]

Put(d, k, v) == [x \in DOMAIN d \cup {k} |-> IF x = k THEN v ELSE d[x]]

\* d.get(k, default)
Get(d, k, default) == IF k \in DOMAIN d THEN d[k] ELSE default

(***************************************************************************)
(* The left column: the "Generate Content" button and the result preview.  *)
(***************************************************************************)
\* Mutant: the prompt is tested without strip().
generate_disabled_no_strip(left_text_input, left_uploaded_file) ==
    ~(Len(left_text_input) > 0 /\ left_uploaded_file # None)

generate_disabled(left_text_input, left_uploaded_file) ==
    ~(Len(strip(left_text_input)) > 0 /\ left_uploaded_file # None)

\* The world of a run whose handler does not run: nothing is called.
IdleWorld == [open |-> "ok", run |-> Raises("not called"), net |-> "ok_image"]

\* Mutant: without a selection the handler falls back on the default of
\* generate_banner's own parameter.
aspect_key_for_default_vertical(aspect_ratio) ==
    IF Truthy(aspect_ratio) THEN lower(aspect_ratio.s) ELSE "vertical"

\* aspect_key = aspect_ratio.lower() if aspect_ratio else "square"
aspect_key_for(aspect_ratio) ==
    IF Truthy(aspect_ratio) THEN lower(aspect_ratio.s) ELSE "square"

\* What a button handler that does not run leaves behind.
no_handler(sess, files) ==
    [session |-> sess, files |-> files, ui |-> << >>, handler |-> FALSE,
     kind |-> "none", staged |-> 0, ret |-> None, calls |-> << >>,
     fetched |-> << >>, normalized |-> FALSE, output |-> None, escaped |-> NoExc,
     world |-> IdleWorld, unlink |-> "ok"]

\* Mutant: the content is stored whenever no exception escaped, None included.
handler_result_store_always(kind, temp_image_path, generated, stored_session, sess, verdict, cleaned, world, unlink) ==
    [session |-> IF generated.exc = NoExc THEN stored_session ELSE sess,
     files |-> cleaned.files,
     ui |-> generated.ui \o (IF generated.exc # NoExc THEN << >> ELSE verdict)
                         \o cleaned.ui,
     handler |-> TRUE, kind |-> kind, staged |-> temp_image_path,
     ret |-> generated.ret, calls |-> generated.calls,
     fetched |-> generated.fetched, normalized |-> generated.normalized,
     output |-> IF generated.normalized THEN world.run.output ELSE None,
     escaped |-> generated.exc, world |-> world, unlink |-> unlink]

\* Mutant: the cleanup is the last statement of the success branch instead of
\* a finally clause.
handler_result_cleanup_on_success(kind, temp_image_path, generated, stored_session, sess, verdict, cleaned, world, unlink) ==
    [session |-> IF generated.exc = NoExc /\ generated.ret # None
                 THEN stored_session ELSE sess,
     files |-> IF generated.exc = NoExc /\ generated.ret # None
               THEN cleaned.files ELSE cleaned.files \cup {temp_image_path},
     ui |-> generated.ui \o (IF generated.exc # NoExc THEN << >> ELSE verdict)
                         \o (IF generated.exc = NoExc /\ generated.ret # None
                             THEN cleaned.ui ELSE << >>),
     handler |-> TRUE, kind |-> kind, staged |-> temp_image_path,
     ret |-> generated.ret, calls |-> generated.calls,
     fetched |-> generated.fetched, normalized |-> generated.normalized,
     output |-> IF generated.normalized THEN world.run.output ELSE None,
     escaped |-> generated.exc, world |-> world, unlink |-> unlink]

\* What a handler that ran leaves behind: the content is stored if there is
\* one, the verdict is shown, and (finally) the staged file is cleaned up.
handler_result(kind, temp_image_path, generated, stored_session, sess, verdict, cleaned, world, unlink) ==
    [session |-> IF generated.exc = NoExc /\ generated.ret # None
                 THEN stored_session ELSE sess,
     files |-> cleaned.files,
     ui |-> generated.ui \o (IF generated.exc # NoExc THEN << >> ELSE verdict)
                         \o cleaned.ui,
     handler |-> TRUE, kind |-> kind, staged |-> temp_image_path,
     ret |-> generated.ret, calls |-> generated.calls,
     fetched |-> generated.fetched, normalized |-> generated.normalized,
     output |-> IF generated.normalized THEN world.run.output ELSE None,
     escaped |-> generated.exc, world |-> world, unlink |-> unlink]

\* The try/finally of the left handler, once the upload is staged.
left_generate_staged(content_type, left_text_input, aspect_key, output_type, temp_image_path, sess, files, world, unlink) ==
    LET generated ==
            IF content_type = "Short-form Video"
            THEN generate_short_form_video(left_text_input, temp_image_path, files, world)
            ELSE generate_banner(left_text_input, temp_image_path, aspect_key, files, world)
    IN  handler_result(
            output_type, temp_image_path, generated,
            Put(Put(Put(sess, "left_generated_" \o output_type, generated.ret),
                    "left_generated_aspect_ratio", PyStr(aspect_key)),
                "left_generated_content_type", PyStr(content_type)),
            sess,
            IF generated.ret # None
            THEN <<Msg("success", <<content_type, " generated successfully!">>)>>
            ELSE <<Msg("error", <<"Failed to generate ", lower(content_type),
                                  ". Please try again.">>)>>,
            cleanup_temp_file(temp_image_path, files, unlink),
            world, unlink)

\* The body of "if st.button(...left_generate...)".
left_generate(content_type, left_text_input, left_uploaded_file, aspect_ratio, sess, files, world, unlink) ==
    IF generate_disabled(left_text_input, left_uploaded_file)
    THEN no_handler(sess, files)
    ELSE left_generate_staged(
             content_type, left_text_input,
             aspect_key_for(aspect_ratio),
             IF content_type = "Short-form Video" THEN "video" ELSE "banner",
             save_uploaded_file(files),
             sess, files \cup {save_uploaded_file(files)}, world, unlink)

\* What the left "Result Preview" container shows when it is not rendered.
not_rendered ==
    [shows |-> "nothing", aspect |-> None, file_name |-> << >>,
     fetched |-> << >>, ui |-> << >>]

\* The download step of the video preview: requests.get, raise_for_status.
download_failure(response) ==
    IF response.exc # NoExc THEN response.exc ELSE raise_for_status(response)

video_preview(video_url, aspect, failure) ==
    IF Truthy(video_url)
    THEN IF failure = NoExc
         THEN [shows |-> "video", aspect |-> aspect,
               file_name |-> <<"video_", aspect.s, ".mp4">>,
               fetched |-> <<video_url>>, ui |-> << >>]
         ELSE [shows |-> "video", aspect |-> aspect,
               file_name |-> << >>, fetched |-> <<video_url>>,
               ui |-> <<Msg("warning", <<"Could not prepare video for download: ",
                                         failure>>)>>]
    ELSE [shows |-> "video", aspect |-> aspect, file_name |-> << >>,
          fetched |-> << >>,
          ui |-> <<Msg("error", <<"Video URL not available">>)>>]

\* The left "Result Preview" container.
left_preview(sess, net) ==
    IF "left_generated_banner" \in DOMAIN sess
    THEN [shows |-> "banner",
          aspect |-> Get(sess, "left_generated_aspect_ratio", PyStr("square")),
          file_name |-> <<"banner_",
                          Get(sess, "left_generated_aspect_ratio", PyStr("square")).s,
                          ".png">>,
          fetched |-> << >>, ui |-> << >>]
    ELSE IF "left_generated_video" \in DOMAIN sess
    THEN video_preview(sess["left_generated_video"],
                       Get(sess, "left_generated_aspect_ratio", PyStr("square")),
                       download_failure(requests_get(sess["left_generated_video"], net)))
    ELSE [shows |-> "none", aspect |-> None, file_name |-> << >>,
          fetched |-> << >>,
          ui |-> <<Msg("info", <<"Generate content above to see results here">>)>>]

\* Whether the left preview issues an HTTP GET for the stored session.
preview_fetches(sess) ==
    /\ "left_generated_banner" \notin DOMAIN sess
    /\ "left_generated_video" \in DOMAIN sess
    /\ Truthy(sess["left_generated_video"])

PreviewNets(sess) ==
    IF preview_fetches(sess) THEN PreviewNetOutcomes ELSE {"ok_not_image"}

(***************************************************************************)
(* The right column: the "Edit Image" button.                              *)
(***************************************************************************)
edit_disabled(right_text_input, right_uploaded_file) ==
    ~(Len(strip(right_text_input)) > 0 /\ right_uploaded_file # None)

\* The try/finally of the right handler, once the upload is staged.
right_edit_staged(right_text_input, temp_image_path, sess, files, world, unlink) ==
    LET edited_image == edit_image(right_text_input, temp_image_path, files, world)
    IN  handler_result(
            "edit", temp_image_path, edited_image,
            Put(sess, "right_edited_image", edited_image.ret),
            sess,
            IF edited_image.ret # None
            THEN <<Msg("success", <<"Image edited successfully!">>)>>
            ELSE <<Msg("error", <<"Failed to edit image. Please try again.">>)>>,
            cleanup_temp_file(temp_image_path, files, unlink),
            world, unlink)

\* The body of "if st.button(...right_edit...)".
right_edit(right_text_input, right_uploaded_file, sess, files, world, unlink) ==
    IF edit_disabled(right_text_input, right_uploaded_file)
    THEN no_handler(sess, files)
    ELSE right_edit_staged(right_text_input, save_uploaded_file(files), sess,
                           files \cup {save_uploaded_file(files)}, world, unlink)

(***************************************************************************)
(* One run of the page script.                                             *)
(***************************************************************************)
\* The page-level key check, made by every run before the columns.
page_header ==
    LET keys == check_api_keys(FAL_API_KEY, GOOGLE_API_KEY, REPLICATE_API_TOKEN)
    IN  IF ~keys.ok
        THEN <<Msg("error", <<"API Configuration Required: ">> \o keys.msg)>>
        ELSE << >>

\* The record of a run: the button pressed, the prompt, the upload and the
\* aspect-ratio selection its handler read, what the handler did (h), the left
\* preview (pv) and the messages in the order shown.
run_record(button, text, uploaded, aspect_ratio, h, pv, ui) ==
    [button |-> button, text |-> text, uploaded |-> uploaded,
     aspect_ratio |-> aspect_ratio,
     handler |-> h.handler, kind |-> h.kind, world |-> h.world,
     unlink |-> h.unlink,
     staged |-> h.staged, ret |-> h.ret, calls |-> h.calls, fetched |-> h.fetched,
     normalized |-> h.normalized, output |-> h.output, escaped |-> h.escaped,
     ui |-> page_header \o ui, preview |-> pv]

Init ==
    /\ \E secret \in KeyValues, env \in KeyValues : FAL_API_KEY = PyOr(secret, env)
    /\ \E secret \in KeyValues, env \in KeyValues : GOOGLE_API_KEY = PyOr(secret, env)
    /\ \E secret \in KeyValues, env \in KeyValues : REPLICATE_API_TOKEN = PyOr(secret, env)
    /\ session_state = EmptyDict
    /\ disk = {}
    /\ run = run_record("none", << >>, None, None, no_handler(EmptyDict, {}),
                        left_preview(EmptyDict, "ok_not_image"),
                        left_preview(EmptyDict, "ok_not_image").ui)

\* Whether an attempt gets past the key check.
keys_ok == check_api_keys(FAL_API_KEY, GOOGLE_API_KEY, REPLICATE_API_TOKEN).ok

\* The worlds an attempt can meet, each described once: none when the button
\* is disabled or a key is missing (nothing outside is called), and for a
\* video, whose normalisation has no HTTP GET, one world per provider outcome.
Reached(disabled, is_video, worlds) ==
    IF disabled \/ ~keys_ok THEN {IdleWorld}
    ELSE IF is_video THEN {w \in worlds : w.net = "ok_image"}
    ELSE worlds

ReachedUnlink(disabled, unlinks) == IF disabled THEN {"ok"} ELSE unlinks

\* The selections a handler can read: none when the button is disabled.
ReachedAspect(disabled) == IF disabled THEN {None} ELSE AspectRatios

\* The end of a run: the session and the files the handler left, and the
\* record of the run.
Commit(button, text, uploaded, aspect_ratio, h, pv, ui) ==
    /\ session_state' = h.session
    /\ disk' = h.files
    /\ run' = run_record(button, text, uploaded, aspect_ratio, h, pv, ui)
    /\ UNCHANGED <<FAL_API_KEY, GOOGLE_API_KEY, REPLICATE_API_TOKEN>>

\* The left column of a run whose handler left h: the preview follows the
\* handler unless an exception stopped the script.
LeftColumn(text, uploaded, aspect_ratio, h) ==
    \E net \in PreviewNets(h.session) :
        IF h.escaped # NoExc
        THEN Commit("left_generate", text, uploaded, aspect_ratio, h, not_rendered, h.ui)
        ELSE Commit("left_generate", text, uploaded, aspect_ratio, h,
                    left_preview(h.session, net),
                    h.ui \o left_preview(h.session, net).ui)

\* The user presses "Generate Content".
LeftGenerate(worlds, unlinks) ==
    \E content_type \in ContentTypes, text \in Texts, uploaded \in Uploads :
      \E aspect_ratio \in ReachedAspect(generate_disabled(text, uploaded)),
         world \in Reached(generate_disabled(text, uploaded),
                           content_type = "Short-form Video", worlds),
         unlink \in ReachedUnlink(generate_disabled(text, uploaded), unlinks) :
        /\ generate_disabled(text, uploaded) \/ TmpPaths \ disk # {}
        /\ LeftColumn(text, uploaded, aspect_ratio,
                      left_generate(content_type, text, uploaded, aspect_ratio,
                                    session_state, disk, world, unlink))

\* The user presses "Edit Image": the left preview is drawn, then the right
\* handler runs.
RightEdit(worlds, unlinks) ==
    \E text \in Texts, uploaded \in Uploads, net \in PreviewNets(session_state) :
      \E world \in Reached(edit_disabled(text, uploaded), FALSE, worlds),
         unlink \in ReachedUnlink(edit_disabled(text, uploaded), unlinks) :
        /\ edit_disabled(text, uploaded) \/ TmpPaths \ disk # {}
        /\ Commit("right_edit", text, uploaded, None,
                  right_edit(text, uploaded, session_state, disk, world, unlink),
                  left_preview(session_state, net),
                  left_preview(session_state, net).ui
                    \o right_edit(text, uploaded, session_state, disk, world, unlink).ui)

\* Any other interaction (a widget change): the script runs, no button fires.
Rerun ==
    \E net \in PreviewNets(session_state) :
        Commit("none", << >>, None, None, no_handler(session_state, disk),
               left_preview(session_state, net), left_preview(session_state, net).ui)

(***************************************************************************)
(* Spec: a session of any number of runs.  To keep the session's history   *)
(* small each attempt meets one of SessionWorlds, which hold one world for *)
(* every way an attempt can end, and the staged file is always deleted.    *)
(***************************************************************************)
Next ==
    \/ LeftGenerate(SessionWorlds, {"ok"})
    \/ RightEdit(SessionWorlds, {"ok"})
    \/ Rerun

Spec == Init /\ [][Next]_vars

(***************************************************************************)
(* SpecAttempt: the attempts of a session with nothing stored, each        *)
(* meeting any of                                                          *)
(* Worlds (every raw output shape, every outcome of the HTTP GET) and any  *)
(* outcome of os.unlink.                                                   *)
(***************************************************************************)
Fresh == session_state = EmptyDict

NextAttempt ==
    \/ Fresh /\ LeftGenerate(Worlds, UnlinkOutcomes)
    \/ Fresh /\ RightEdit(Worlds, UnlinkOutcomes)
    \/ Rerun

SpecAttempt == Init /\ [][NextAttempt]_vars

(***************************************************************************)
(* Vocabulary of the properties.                                           *)
(***************************************************************************)
KeyNames == {"FAL_API_KEY", "GOOGLE_API_KEY", "REPLICATE_API_TOKEN"}

KeyValue(name) ==
    CASE name = "FAL_API_KEY" -> FAL_API_KEY
      [] name = "GOOGLE_API_KEY" -> GOOGLE_API_KEY
      [] name = "REPLICATE_API_TOKEN" -> REPLICATE_API_TOKEN

\* The credentials that are absent or empty.
Missing == {name \in KeyNames : KeyValue(name) = None \/ KeyValue(name) = PyStr("")}

\* The credential names a message names.
NamesIn(text) == {text[i] : i \in DOMAIN text} \cap KeyNames

\* The latest run showed a message of this level that starts with this piece.
Shown(level, first) ==
    \E i \in DOMAIN run.ui : run.ui[i].level = level /\ run.ui[i].text[1] = first

\* The latest run showed an error that ends with this piece.
ErrorCarries(first, last) ==
    \E i \in DOMAIN run.ui :
        /\ run.ui[i].level = "error"
        /\ run.ui[i].text[1] = first
        /\ run.ui[i].text[Len(run.ui[i].text)] = last

\* The handler told the user that the attempt failed.
FailureReported ==
    \/ Shown("error", "Failed to generate ")
    \/ Shown("error", "Failed to edit image. Please try again.")

UnexpectedShape == Shown("error", "Unexpected output format: ")

(***************************************************************************)
(* C1.  With any credential absent or empty, an attempt of any of the      *)
(* three kinds returns nothing, shows "API Configuration Error" naming     *)
(* exactly the missing credentials and makes no call to the provider;      *)
(* with all three present check_api_keys answers (True, "") and no         *)
(* configuration message is shown.                                         *)
(***************************************************************************)
C1_MissingKeysNamedNoCall ==
    /\ (run.handler /\ Missing # {}) =>
          /\ run.ret = None
          /\ run.calls = << >>
          /\ \E i \in DOMAIN run.ui :
                /\ run.ui[i].level = "error"
                /\ run.ui[i].text[1] = "API Configuration Error: "
                /\ NamesIn(run.ui[i].text) = Missing
    /\ Missing = {} =>
          /\ check_api_keys(FAL_API_KEY, GOOGLE_API_KEY, REPLICATE_API_TOKEN)
               = [ok |-> TRUE, msg |-> << >>]
          /\ ~Shown("error", "API Configuration Error: ")
          /\ ~Shown("error", "API Configuration Required: ")

\* An edit attempt with one credential empty and another absent.
C1_Witness ==
    /\ run.handler
    /\ run.kind = "edit"
    /\ FAL_API_KEY = PyStr("key")
    /\ GOOGLE_API_KEY = PyStr("")
    /\ REPLICATE_API_TOKEN = None
    /\ run.calls = << >>

(***************************************************************************)
(* C2.  process_api_output applies exactly one rule, in the order string,  *)
(* non-empty list, object with url, otherwise "unexpected format": the     *)
(* URL it resolves (returned for a video, fetched for an image) is the     *)
(* string itself, the first element as a string, or the url field.         *)
(***************************************************************************)
Resolved(url) ==
    IF run.kind = "video" THEN run.ret = url /\ run.fetched = << >>
    ELSE run.fetched = <<url>>

IsString(o) == o.t = "str"

NonEmptyList(o) == o.t = "list" /\ Len(o.items) > 0

HasUrl(o) == "url" \in DOMAIN o

C2_ShapeDispatch ==
    run.normalized =>
        /\ IsString(run.output) => Resolved(run.output) /\ ~UnexpectedShape
        /\ (~IsString(run.output) /\ NonEmptyList(run.output)) =>
              Resolved(Str(run.output.items[1])) /\ ~UnexpectedShape
        /\ (~IsString(run.output) /\ ~NonEmptyList(run.output) /\ HasUrl(run.output)) =>
              Resolved(run.output.url) /\ ~UnexpectedShape
        /\ (~IsString(run.output) /\ ~NonEmptyList(run.output) /\ ~HasUrl(run.output)) =>
              UnexpectedShape /\ run.ret = None /\ run.fetched = << >>

\* A video attempt whose output is a string that also has a url attribute.
C2_Witness ==
    /\ run.normalized
    /\ run.kind = "video"
    /\ run.output = UrlStr("https://r/1", PyStr("https://r/2"))
    /\ run.ret = run.output

(***************************************************************************)
(* C3.  An attempt whose provider output is the empty list ends in the     *)
(* "unexpected format" failure, not in an index fault: nothing is          *)
(* returned or fetched, the failure is reported and the session is left    *)
(* as it was.                                                              *)
(***************************************************************************)
C3_EmptyListIsUnexpectedShape ==
    [][(run'.normalized /\ run'.output = PyList(<< >>)) =>
          /\ run'.ret = None
          /\ run'.fetched = << >>
          /\ UnexpectedShape'
          /\ ~Shown("error", "Error processing API output: ")'
          /\ FailureReported'
          /\ session_state' = session_state]_vars

\* A video attempt that got the empty list while a banner was stored.
C3_Witness ==
    /\ run.normalized
    /\ run.output = PyList(<< >>)
    /\ run.kind = "video"
    /\ "left_generated_banner" \in DOMAIN session_state

(***************************************************************************)
(* Result slots and the ways an attempt fails.                             *)
(***************************************************************************)
ResultSlots == {"left_generated_banner", "left_generated_video", "right_edited_image"}

SlotOf(kind) ==
    CASE kind = "banner" -> "left_generated_banner"
      [] kind = "video" -> "left_generated_video"
      [] kind = "edit" -> "right_edited_image"

\* The latest attempt met an error: a missing credential, a staged file that
\* cannot be opened, a provider exception, a fetch or decode that fails, or
\* an output of no recognised shape.
ErrorRaised ==
    \/ Missing # {}
    \/ run.world.open # "ok"
    \/ run.world.run.exc # NoExc
    \/ /\ run.normalized
       /\ run.fetched # << >>
       /\ (run.world.net # "ok_image" \/ ~IsUrl(run.fetched[1]))
    \/ /\ run.normalized
       /\ ~IsString(run.output)
       /\ ~NonEmptyList(run.output)
       /\ ~HasUrl(run.output)

\* The slot changed in the step.
SlotChanged(slot) ==
    \/ (slot \in DOMAIN session_state') # (slot \in DOMAIN session_state)
    \/ /\ slot \in DOMAIN session_state
       /\ slot \in DOMAIN session_state'
       /\ session_state'[slot] # session_state[slot]

\* Every slot is absent or holds a full result: an image, or a non-empty URL.
SlotsPopulated ==
    /\ "left_generated_banner" \in DOMAIN session_state =>
          session_state["left_generated_banner"].t = "Image"
    /\ "right_edited_image" \in DOMAIN session_state =>
          session_state["right_edited_image"].t = "Image"
    /\ "left_generated_video" \in DOMAIN session_state =>
          /\ session_state["left_generated_video"].t = "str"
          /\ session_state["left_generated_video"].s # ""

(***************************************************************************)
(* C4.  Every result slot is absent or fully populated (a decoded image    *)
(* for the banner and edit slots, a non-empty URL string for the video     *)
(* slot), and an attempt that meets an error stores nothing.               *)
(* The code stores whatever is not None: a provider output "" for a video  *)
(* is stored as the video result.                                          *)
(***************************************************************************)
C4_SlotsAbsentOrPopulated ==
    [][/\ SlotsPopulated'
       /\ (run'.handler /\ ErrorRaised') => session_state' = session_state]_vars

(***************************************************************************)
(* C5.  A result slot changes only in a run whose attempt is of the        *)
(* slot's kind and returns content, and then holds that content; an        *)
(* attempt that returns nothing leaves the whole session (results, aspect  *)
(* ratio, content type) as it was.                                         *)
(***************************************************************************)
C5_SlotsChangeOnlyOnSuccess ==
    [][/\ \A slot \in ResultSlots :
            SlotChanged(slot) =>
               /\ run'.handler
               /\ run'.ret # None
               /\ slot = SlotOf(run'.kind)
       /\ (run'.handler /\ run'.ret # None) =>
             /\ SlotOf(run'.kind) \in DOMAIN session_state'
             /\ session_state'[SlotOf(run'.kind)] = run'.ret
       /\ (run'.handler /\ run'.ret = None) => session_state' = session_state]_vars

\* A failed attempt in a session where all three slots are stored.
C5_Witness ==
    /\ run.handler
    /\ run.ret = None
    /\ ResultSlots \subseteq DOMAIN session_state

(***************************************************************************)
(* C6.  As claimed: every run that staged a file ends with the file gone.  *)
(* cleanup_temp_file swallows a failing os.unlink and leaves the file.     *)
(***************************************************************************)
C6_StagedFileDeleted == run.staged # 0 => run.staged \notin disk

(***************************************************************************)
(* C6, amended.  Every run that staged a file ends with cleanup_temp_file  *)
(* applied to it, whatever the outcome of the generation: the file is      *)
(* gone unless os.unlink itself fails, and then the file stays and the     *)
(* warning "Could not clean up temporary file" is shown.                   *)
(***************************************************************************)
C6_StagedFileCleanedUp ==
    run.staged # 0 =>
        IF run.unlink = "ok"
        THEN /\ run.staged \notin disk
             /\ ~Shown("warning", "Could not clean up temporary file: ")
        ELSE /\ run.staged \in disk
             /\ Shown("warning", "Could not clean up temporary file: ")

\* The provider raised and the staged file is gone.
C6_Witness ==
    /\ run.staged # 0
    /\ Len(run.calls) = 1
    /\ run.world.run.exc = "provider down"
    /\ run.staged \notin disk

(***************************************************************************)
(* C7.  An attempt calls replicate.run at most once, and exactly once      *)
(* when the credentials are present and the staged file opens; when the    *)
(* call raises the attempt returns nothing, shows the original message     *)
(* and has made that one call only.                                        *)
(***************************************************************************)
ErrorPrefix(kind) ==
    CASE kind = "banner" -> "Error generating banner: "
      [] kind = "video" -> "Error generating video: "
      [] kind = "edit" -> "Error editing image: "

C7_SingleProviderCall ==
    run.handler =>
        /\ Len(run.calls) <= 1
        /\ (Missing = {} /\ run.world.open = "ok") => Len(run.calls) = 1
        /\ (Missing = {} /\ run.world.open = "ok" /\ run.world.run.exc # NoExc) =>
              /\ run.ret = None
              /\ ErrorCarries(ErrorPrefix(run.kind), run.world.run.exc)
              /\ Len(run.calls) = 1

\* A banner attempt whose provider call raised.
C7_Witness ==
    /\ run.handler
    /\ run.kind = "banner"
    /\ run.world.run.exc = "provider down"
    /\ Len(run.calls) = 1

(***************************************************************************)
(* C8.  A button press whose prompt is empty or only whitespace runs no    *)
(* handler: nothing is staged, called or fetched, in either column.        *)
(***************************************************************************)
Blank(text) == \A i \in DOMAIN text : text[i] = " "

C8_BlankPromptRejected ==
    (run.button # "none" /\ Blank(run.text)) =>
        /\ ~run.handler
        /\ run.staged = 0
        /\ run.calls = << >>
        /\ run.fetched = << >>

\* "Generate Content" pressed with a whitespace prompt, an upload and all keys.
C8_Witness ==
    /\ run.button = "left_generate"
    /\ run.text = <<" ", " ">>
    /\ run.uploaded # None
    /\ Missing = {}
    /\ ~run.handler

(***************************************************************************)
(* C9.  No exception leaves an attempt: every error met (credential        *)
(* check, opening the staged file, provider call, fetch, decode,           *)
(* unexpected shape) ends in an error message and a None return, which     *)
(* the handler reports as a failure.                                       *)
(***************************************************************************)
ErrorMessages ==
    {"API Configuration Error: ", "Error generating banner: ",
     "Error generating video: ", "Error editing image: ",
     "Error processing API output: ", "Unexpected output format: "}

C9_ErrorsCaughtInAttempt ==
    /\ run.escaped = NoExc
    /\ (run.handler /\ ErrorRaised) =>
          /\ run.ret = None
          /\ \E m \in ErrorMessages : Shown("error", m)
          /\ FailureReported

\* A video attempt whose staged file could not be opened.
C9_Witness ==
    /\ run.handler
    /\ run.kind = "video"
    /\ Missing = {}
    /\ run.world.open = "denied"
    /\ run.ret = None

(***************************************************************************)
(* C10.  A video attempt fetches nothing: a string output, or the string   *)
(* that heads a list, is returned as it is.  The only GET of a video URL   *)
(* is the one of the preview's download step, for the stored URL, and      *)
(* when it fails the stored video is still there, unchanged.               *)
(***************************************************************************)
DownloadFailed == Shown("warning", "Could not prepare video for download: ")

C10_VideoNotFetchedByNormalizer ==
    [][/\ (run'.handler /\ run'.kind = "video") =>
             /\ run'.fetched = << >>
             /\ (run'.normalized /\ IsString(run'.output)) => run'.ret = run'.output
             /\ (run'.normalized /\ ~IsString(run'.output) /\ NonEmptyList(run'.output)
                   /\ IsString(run'.output.items[1])) =>
                   run'.ret = run'.output.items[1]
       /\ run'.preview.fetched # << >> =>
             /\ run'.preview.shows = "video"
             /\ "left_generated_video" \in DOMAIN session_state'
             /\ run'.preview.fetched = <<session_state'["left_generated_video"]>>
       /\ DownloadFailed' =>
             /\ "left_generated_video" \in DOMAIN session_state'
             /\ session_state'["left_generated_video"] = run'.preview.fetched[1]
             /\ ~run'.handler => session_state' = session_state]_vars

\* A video attempt on a list output, stored, whose download then failed.
C10_Witness ==
    /\ run.handler
    /\ run.kind = "video"
    /\ run.normalized
    /\ NonEmptyList(run.output)
    /\ run.fetched = << >>
    /\ DownloadFailed
    /\ "left_generated_video" \in DOMAIN session_state

(***************************************************************************)
(* Aspect ratio of a banner.                                               *)
(***************************************************************************)
AspectValues == {"vertical", "square", "horizontal"}

\* The calls the latest attempt made to the banner agent.
BannerCalls ==
    {i \in DOMAIN run.calls : run.calls[i].ref = "smoretalk/banner-agent"}

\* The enumerated value a selection stands for.
ValueOf(selection) ==
    CASE selection = PyStr("Vertical") -> "vertical"
      [] selection = PyStr("Square") -> "square"
      [] selection = PyStr("Horizontal") -> "horizontal"

LatestLeftKind ==
    IF session_state["left_generated_content_type"] = PyStr("Short-form Video")
    THEN "video" ELSE "banner"

(***************************************************************************)
(* C12.  Whenever the left result preview is drawn after a successful left *)
(* generation, it shows the result of the most recent one: the video after *)
(* a video generation, the banner after a banner generation.               *)
(* The preview tests for a stored banner first and shows the video only in *)
(* the elif branch: once a banner is stored, no video is ever shown.       *)
(***************************************************************************)
C12_PreviewShowsLatestGeneration ==
    ("left_generated_content_type" \in DOMAIN session_state
        /\ run.preview.shows # "nothing") =>
       /\ run.preview.shows = LatestLeftKind
       /\ (run.button = "left_generate" /\ run.handler /\ run.ret # None) =>
             session_state[SlotOf(run.kind)] = run.ret

\* The latest run generated the banner that is now stored.
BannerGenerated == run.handler /\ run.kind = "banner" /\ run.ret # None

\* The aspect ratio the latest attempt sent to the banner agent.
SentAspect == run.calls[1].input.aspect_ratio

(***************************************************************************)
(* C13.  While a banner is stored, its caption and its download file name  *)
(* carry the aspect ratio sent to the provider when it was generated: they *)
(* are set by the run that generates the banner and no later run of        *)
(* another kind changes them.                                              *)
(* The aspect ratio is kept in one key shared by both kinds: a successful  *)
(* video generation overwrites it while the banner stays stored.           *)
(***************************************************************************)
C13_BannerAspectKept ==
    [][run'.preview.shows = "banner" =>
          IF BannerGenerated'
          THEN /\ run'.preview.aspect = PyStr(SentAspect')
               /\ run'.preview.file_name = <<"banner_", SentAspect', ".png">>
          ELSE run.preview.shows = "banner" =>
                  /\ run'.preview.aspect = run.preview.aspect
                  /\ run'.preview.file_name = run.preview.file_name]_vars

=============================================================================
